---- MODULE Spec2Model ----
(***************************************************************************)
(* Model of the admin inventory page                                       *)
(* (frontend/app/dashboard/admin/inventory/page.tsx).                      *)
(*                                                                         *)
(* The state is the React state of InventoryPage, the two sessionStorage   *)
(* entries it reads, the router, the last toast, the backend collection    *)
(* behind /api/admin/inventory and the axios requests in flight.  One      *)
(* action stands for one event handler (run to its first await) or for the *)
(* continuation of a handler after its await.                              *)
(*                                                                         *)
(* Strings the code trims, parses or formats are sequences of one-char     *)
(* strings; strings the code only compares or copies are TLA+ strings.     *)
(* An optional value (a '?' field, null, undefined) is a set with at most  *)
(* one element.                                                            *)
(***************************************************************************)
EXTENDS Integers, Sequences, FiniteSets, Bags

(***************************************************************************)
(* Bounds of the model.                                                    *)
(***************************************************************************)
\* Requests that may be outstanding at once.
MaxInFlight == 2
\* Create, update and delete requests the user has the page send in one
\* behaviour.
MaxMutations == 1
\* Files the user picks in one file dialog.
MaxFiles == 1

(***************************************************************************)
(* Optional values.                                                        *)
(***************************************************************************)
None == {}

Some(x) == {x}

The(o) == CHOOSE x \in o : TRUE

(***************************************************************************)
(* Strings as character sequences: String.prototype.trim, Number(),        *)
(* Number.prototype.toString and the value of an <input type="number">.    *)
(***************************************************************************)
Digits == <<"0", "1", "2", "3", "4", "5", "6", "7", "8", "9">>

IsDigit(c) == \E i \in 1..Len(Digits) : Digits[i] = c

DigitVal(c) == (CHOOSE i \in 1..Len(Digits) : Digits[i] = c) - 1

IsSpace(c) == c = " "

RECURSIVE TrimStart(_)
TrimStart(s) ==
    IF s # <<>> /\ IsSpace(Head(s)) THEN TrimStart(Tail(s)) ELSE s

RECURSIVE TrimEnd(_)
TrimEnd(s) ==
    IF s # <<>> /\ IsSpace(s[Len(s)])
      THEN TrimEnd(SubSeq(s, 1, Len(s) - 1))
      ELSE s

\* s.trim()
Trim(s) == TrimEnd(TrimStart(s))

AllDigits(s) == \A i \in 1..Len(s) : IsDigit(s[i])

RECURSIVE DigitsValue(_)
DigitsValue(s) ==
    IF s = <<>> THEN 0
    ELSE 10 * DigitsValue(SubSeq(s, 1, Len(s) - 1)) + DigitVal(s[Len(s)])

\* Index of the first "." of s, or 0.
DotAt(s) ==
    IF \E i \in 1..Len(s) : s[i] = "."
      THEN CHOOSE i \in 1..Len(s) : s[i] = "." /\ \A j \in 1..(i - 1) : s[j] # "."
      ELSE 0

IntPart(s) == IF DotAt(s) = 0 THEN s ELSE SubSeq(s, 1, DotAt(s) - 1)

FracPart(s) == IF DotAt(s) = 0 THEN <<>> ELSE SubSeq(s, DotAt(s) + 1, Len(s))

\* Every number, a price or a stock, is counted in hundredths (the price
\* input has step="0.01"); NaN is a value of its own, as in JavaScript.
NaN == [nan |-> TRUE, v |-> 0]

Num(v) == [nan |-> FALSE, v |-> v]

\* Hundredths denoted by at most two fraction digits.
FracValue(f) ==
    IF Len(f) = 0 THEN 0
    ELSE IF Len(f) = 1 THEN 10 * DigitVal(f[1])
    ELSE 10 * DigitVal(f[1]) + DigitVal(f[2])

\* An unsigned decimal literal: digits, optionally "." and digits.
\* dotAlone: whether "5." (digits, then a bare dot) is accepted.
IsUnsignedDecimal(s, dotAlone) ==
    /\ AllDigits(IntPart(s))
    /\ AllDigits(FracPart(s))
    /\ Len(IntPart(s)) + Len(FracPart(s)) > 0
    /\ (DotAt(s) # 0 /\ FracPart(s) = <<>>) => (dotAlone /\ IntPart(s) # <<>>)

UnsignedValue(s) == 100 * DigitsValue(IntPart(s)) + FracValue(FracPart(s))

\* Number(s) of JavaScript on the decimal strings of the model: white space
\* is trimmed, the empty string is 0, a sign may lead, anything else is NaN.
ToNumber(s) ==
    LET t == Trim(s)
        signed == t # <<>> /\ Head(t) \in {"-", "+"}
        u == IF signed THEN Tail(t) ELSE t
    IN  IF t = <<>> THEN Num(0)
        ELSE IF ~IsUnsignedDecimal(u, TRUE) THEN NaN
        ELSE IF Head(t) = "-" THEN Num(0 - UnsignedValue(u))
        ELSE Num(UnsignedValue(u))

\* The comparisons of the validation; every comparison with NaN is false.
NumLeqZero(n) == ~n.nan /\ n.v <= 0

NumLtZero(n) == ~n.nan /\ n.v < 0

NumGtZero(n) == ~n.nan /\ n.v > 0

NumGeqZero(n) == ~n.nan /\ n.v >= 0

RECURSIVE NatToString(_)
NatToString(n) ==
    IF n < 10 THEN <<Digits[n + 1]>>
    ELSE NatToString(n \div 10) \o <<Digits[(n % 10) + 1]>>

\* n.toString() of a number n given in hundredths.
NumberToString(v) ==
    LET a == IF v < 0 THEN 0 - v ELSE v
        f == a % 100
        frac == IF f = 0 THEN <<>>
                ELSE IF f % 10 = 0 THEN <<".", Digits[(f \div 10) + 1]>>
                ELSE <<".", Digits[(f \div 10) + 1], Digits[(f % 10) + 1]>>
    IN  (IF v < 0 THEN <<"-">> ELSE <<>>) \o NatToString(a \div 100) \o frac

\* The value an <input type="number"> reports for the typed text: the text
\* when it is a valid floating-point number, the empty string otherwise.
NumberInputValue(raw) ==
    LET u == IF raw # <<>> /\ Head(raw) = "-" THEN Tail(raw) ELSE raw
    IN  IF IsUnsignedDecimal(u, FALSE) THEN raw ELSE <<>>

(***************************************************************************)
(* Image references.  A path is a sequence of tokens; "/" and "\\" are its *)
(* separators.                                                             *)
(***************************************************************************)
\* imagePath.replace(/\\/g, '/')
ReplaceBackslashes(p) == [i \in 1..Len(p) |-> IF p[i] = "\\" THEN "/" ELSE p[i]]

\* p.split('/').pop(): what follows the last "/" (all of p when it has none).
LastSegment(p) ==
    LET cuts == {i \in 1..Len(p) : p[i] = "/"}
        last == IF cuts = {} THEN 0 ELSE CHOOSE i \in cuts : \A j \in cuts : j <= i
    IN  SubSeq(p, last + 1, Len(p))

\* getImageUrl(imagePath); the argument is optional.
GetImageUrl(imagePath) ==
    IF imagePath = None \/ The(imagePath) = <<>>
      THEN <<"/placeholder.png">>
      ELSE <<"http://localhost:8000/uploads/products/">>
             \o LastSegment(ReplaceBackslashes(The(imagePath)))

\* URL.createObjectURL(file)
CreateObjectURL(file) == <<"blob:", file>>

(***************************************************************************)
(* Toast texts.                                                            *)
(***************************************************************************)
NoToast == "(none)"

MsgUnauthorized == "Unauthorized access"

MsgNoToken == "Authentication token not found"

MsgAuthFailed == "Authentication failed. Please login again."

MsgFetchFailed == "Failed to fetch inventory"

MsgRequired == "Please fill in all required fields (Pack Size is optional)."

MsgImageRequired == "Image is required when adding a new item."

MsgPrice == "Price must be greater than 0"

MsgStock == "Stock cannot be negative"

MsgUpdated == "Item updated successfully"

MsgAdded == "Item added successfully"

MsgInvalidData == "Invalid data provided"

MsgOperationFailed == "Operation failed"

MsgDeleted == "Item deleted successfully"

MsgDeleteFailed == "Failed to delete item"

\* The message a backend error response may carry ("" is none).
BackendMessages == {"", "Rejected by the backend"}

(***************************************************************************)
(* The state.                                                              *)
(***************************************************************************)
VARIABLES
    storedUser,    \* sessionStorage 'user': None or Some(user record)
    token,         \* sessionStorage 'token' is present
    mounted,       \* the mount effect has run
    route,         \* "inventory", or "login" after router.push('/login')
    toast,         \* the last notification shown
    user,          \* None or Some(user record)
    inventory,     \* the list the table shows
    isModalOpen,
    isEditMode,
    selectedItem,  \* None or Some(item)
    formData,      \* the draft
    imagePreview,
    imageFiles,    \* the pending files
    backend,       \* the collection behind /api/admin/inventory
    created,       \* items the backend has created so far
    mutations,     \* create, update and delete requests sent so far
    net            \* requests in flight (a bag of request records)

view == <<inventory, formData, imageFiles, imagePreview, isModalOpen,
          isEditMode, selectedItem>>

vars == <<storedUser, token, mounted, route, toast, user, inventory,
          isModalOpen, isEditMode, selectedItem, formData, imagePreview,
          imageFiles, backend, created, mutations, net>>

\* The draft of useState and of resetForm.
EmptyForm ==
    [name |-> <<>>, description |-> <<>>, category |-> "", price |-> <<>>,
     stock |-> <<>>, brand |-> <<>>, packSize |-> <<>>, status |-> "active",
     prescription |-> "not_required", images |-> <<>>]

(***************************************************************************)
(* Items of the backend before the page is opened.                         *)
(***************************************************************************)
\* Image list and legacy image both present: the list wins.
SeedBoth ==
    [_id |-> 1, name |-> <<"a">>, category |-> "kids", price |-> 500,
     stock |-> 0, description |-> <<"a">>, status |-> "active",
     prescription |-> "not_required",
     images |-> Some(<<<<"up", "\\", "x.png">>, <<"y.png">>>>),
     image |-> Some(<<"old.png">>), brand |-> Some(<<"a">>),
     packSize |-> None]

\* An item from before multi-image support: legacy image only, no brand.
SeedLegacy ==
    [_id |-> 2, name |-> <<"a">>, category |-> "kids", price |-> 550,
     stock |-> 300, description |-> <<"d">>, status |-> "inactive",
     prescription |-> "required", images |-> None,
     image |-> Some(<<"up", "/", "old.png">>), brand |-> None,
     packSize |-> Some(<<"p">>)]

\* No image at all: an empty list and an empty legacy reference.
SeedBare ==
    [_id |-> 3, name |-> <<"a">>, category |-> "kids", price |-> 105,
     stock |-> 1200, description |-> <<"d">>, status |-> "active",
     prescription |-> "not_required", images |-> Some(<<>>),
     image |-> Some(<<>>), brand |-> Some(<<"b">>), packSize |-> None]

SeedIds == {SeedBoth._id, SeedLegacy._id, SeedBare._id}

StoredUsers ==
    {None, Some([id |-> "u1", role |-> "admin"]),
     Some([id |-> "u2", role |-> "customer"])}

\* The page as constructed, over a backend holding one of collections.
InitWith(collections) ==
    /\ storedUser \in StoredUsers
    /\ token \in BOOLEAN
    /\ mounted = FALSE
    /\ route = "inventory"
    /\ toast = NoToast
    /\ user = None
    /\ inventory = <<>>
    /\ isModalOpen = FALSE
    /\ isEditMode = FALSE
    /\ selectedItem = None
    /\ formData = EmptyForm
    /\ imagePreview = <<>>
    /\ imageFiles = <<>>
    /\ backend \in collections
    /\ created = 0
    /\ mutations = 0
    /\ net = EmptyBag

(***************************************************************************)
(* Requests.  A request is "sent" until the backend has answered it and    *)
(* "replied" until the awaiting handler has resumed with the answer.       *)
(***************************************************************************)
Request(kind, id, body) ==
    [kind |-> kind, id |-> id, body |-> body, phase |-> "sent", status |-> 0,
     msg |-> "", data |-> <<>>, truthy |-> FALSE]

Reply(r, status, msg, data, truthy) ==
    [r EXCEPT !.phase = "replied", !.status = status, !.msg = msg,
              !.data = data, !.truthy = truthy]

InFlight == BagCardinality(net)

Sent == {r \in BagToSet(net) : r.phase = "sent"}

Replied == {r \in BagToSet(net) : r.phase = "replied"}

One(r) == SetToBag({r})

\* The elements of a sequence.
Range(s) == {s[i] : i \in DOMAIN s}

\* The items of a collection other than the one with identifier id.
RECURSIVE WithoutId(_, _)
WithoutId(s, id) ==
    IF s = <<>> THEN <<>>
    ELSE IF Head(s)._id = id THEN WithoutId(Tail(s), id)
    ELSE <<Head(s)>> \o WithoutId(Tail(s), id)

(***************************************************************************)
(* Session gate and data loader.                                           *)
(***************************************************************************)
\* fetchInventory() up to its await, started with n in flight, toast t and
\* route r: what it leaves in flight, the toast and the route.
FetchInventory(n, t, r) ==
    IF ~token
      THEN [net |-> n, toast |-> MsgNoToken, route |-> "login"]
      ELSE [net |-> n (+) One(Request("GET", 0, None)), toast |-> t,
            route |-> r]

\* A faulty mount effect that does not look at the role of the stored user.
MountNoRoleCheck ==
    /\ ~mounted
    /\ mounted' = TRUE
    /\ IF storedUser = None
         THEN /\ route' = "login"
              /\ UNCHANGED <<toast, user, net>>
         ELSE LET f == FetchInventory(net, toast, route)
              IN  /\ user' = storedUser
                  /\ net' = f.net
                  /\ toast' = f.toast
                  /\ route' = f.route
    /\ UNCHANGED <<storedUser, token, inventory, isModalOpen, isEditMode,
                   selectedItem, formData, imagePreview, imageFiles, backend,
                   created, mutations>>

\* The mount effect.
Mount ==
    /\ ~mounted
    /\ mounted' = TRUE
    /\ IF storedUser = None
         THEN /\ route' = "login"
              /\ UNCHANGED <<toast, user, net>>
         ELSE IF The(storedUser).role # "admin"
         THEN /\ toast' = MsgUnauthorized
              /\ route' = "login"
              /\ UNCHANGED <<user, net>>
         ELSE LET f == FetchInventory(net, toast, route)
              IN  /\ user' = storedUser
                  /\ net' = f.net
                  /\ toast' = f.toast
                  /\ route' = f.route
    /\ UNCHANGED <<storedUser, token, inventory, isModalOpen, isEditMode,
                   selectedItem, formData, imagePreview, imageFiles, backend,
                   created, mutations>>

\* A faulty continuation of fetchInventory that tries again on a 401.
FetchResponseRetries(r) ==
    /\ r \in Replied
    /\ r.kind = "GET"
    /\ IF r.status = 200
         THEN /\ inventory' = r.data
              /\ net' = net (-) One(r)
              /\ UNCHANGED <<toast, route>>
         ELSE IF r.status = 401
         THEN /\ toast' = MsgAuthFailed
              /\ route' = "login"
              /\ net' = (net (-) One(r)) (+) One(Request("GET", 0, None))
              /\ UNCHANGED inventory
         ELSE /\ toast' = MsgFetchFailed
              /\ net' = net (-) One(r)
              /\ UNCHANGED <<inventory, route>>
    /\ UNCHANGED <<storedUser, token, mounted, user, isModalOpen, isEditMode,
                   selectedItem, formData, imagePreview, imageFiles, backend,
                   created, mutations>>

\* fetchInventory() after its await: the answer r to its GET.
FetchResponse(r) ==
    /\ r \in Replied
    /\ r.kind = "GET"
    /\ net' = net (-) One(r)
    /\ IF r.status = 200
         THEN /\ inventory' = r.data
              /\ UNCHANGED <<toast, route>>
         ELSE IF r.status = 401
         THEN /\ toast' = MsgAuthFailed
              /\ route' = "login"
              /\ UNCHANGED inventory
         ELSE /\ toast' = MsgFetchFailed
              /\ UNCHANGED <<inventory, route>>
    /\ UNCHANGED <<storedUser, token, mounted, user, isModalOpen, isEditMode,
                   selectedItem, formData, imagePreview, imageFiles, backend,
                   created, mutations>>

(***************************************************************************)
(* Form controller.                                                        *)
(***************************************************************************)
\* The page renders its table and its modal once user is set; after
\* router.push('/login') the page is left.
Interactive == mounted /\ user # None /\ route = "inventory"

\* A faulty resetForm() that leaves the selected item in place.
ResetFormKeepsSelection ==
    /\ formData' = EmptyForm
    /\ imagePreview' = <<>>
    /\ imageFiles' = <<>>
    /\ isEditMode' = FALSE
    /\ selectedItem' = selectedItem

\* resetForm() sets the five pieces of state below.
ResetForm ==
    /\ formData' = EmptyForm
    /\ imagePreview' = <<>>
    /\ imageFiles' = <<>>
    /\ isEditMode' = FALSE
    /\ selectedItem' = None

\* The "Add New Item" button.
StartCreate ==
    /\ Interactive
    /\ ~isModalOpen
    /\ ResetForm
    /\ isModalOpen' = TRUE
    /\ UNCHANGED <<storedUser, token, mounted, route, toast, user, inventory,
                   backend, created, mutations, net>>

\* A faulty resolution that forgets the legacy image.
ExistingImagesNoFallback(item) ==
    IF item.images # None /\ Len(The(item.images)) > 0
      THEN The(item.images)
      ELSE <<>>

\* The image list handleEdit resolves for an item.
ExistingImages(item) ==
    IF item.images # None /\ Len(The(item.images)) > 0
      THEN The(item.images)
      ELSE IF item.image # None /\ The(item.image) # <<>>
      THEN <<The(item.image)>>
      ELSE <<>>

\* x || '' for an optional string x.
OrEmpty(x) == IF x = None THEN <<>> ELSE The(x)

\* handleEdit(item), for an item of the table.
HandleEdit(item) ==
    /\ Interactive
    /\ ~isModalOpen
    /\ item \in Range(inventory)
    /\ selectedItem' = Some(item)
    /\ formData' =
         [name |-> item.name, description |-> item.description,
          category |-> item.category, price |-> NumberToString(item.price),
          stock |-> NumberToString(item.stock), status |-> item.status,
          prescription |-> item.prescription,
          images |-> ExistingImages(item), brand |-> OrEmpty(item.brand),
          packSize |-> OrEmpty(item.packSize)]
    /\ imagePreview' =
         [i \in 1..Len(ExistingImages(item)) |->
            GetImageUrl(Some(ExistingImages(item)[i]))]
    /\ imageFiles' = <<>>
    /\ isEditMode' = TRUE
    /\ isModalOpen' = TRUE
    /\ UNCHANGED <<storedUser, token, mounted, route, toast, user, inventory,
                   backend, created, mutations, net>>

\* The value a form control hands to its onChange for the typed text raw.
ControlValue(field, raw) ==
    IF field \in {"price", "stock"} THEN NumberInputValue(raw) ELSE raw

\* The onChange handler of one form control.
OnChange(field, raw) ==
    /\ Interactive
    /\ isModalOpen
    /\ formData' = [formData EXCEPT ![field] = ControlValue(field, raw)]
    /\ UNCHANGED <<storedUser, token, mounted, route, toast, user, inventory,
                   isModalOpen, isEditMode, selectedItem, imagePreview,
                   imageFiles, backend, created, mutations, net>>

\* handleImageChange, for the files of the file dialog (none when the
\* dialog was cancelled).
HandleImageChange(files) ==
    /\ Interactive
    /\ isModalOpen
    /\ IF Len(files) > 0
         THEN /\ imageFiles' = files
              /\ imagePreview' =
                   [i \in 1..Len(files) |-> CreateObjectURL(files[i])]
         ELSE UNCHANGED <<imageFiles, imagePreview>>
    /\ UNCHANGED <<storedUser, token, mounted, route, toast, user, inventory,
                   isModalOpen, isEditMode, selectedItem, formData, backend,
                   created, mutations, net>>

\* handleModalClose: the Cancel button.
HandleModalClose ==
    /\ Interactive
    /\ isModalOpen
    /\ isModalOpen' = FALSE
    /\ ResetForm
    /\ UNCHANGED <<storedUser, token, mounted, route, toast, user, inventory,
                   backend, created, mutations, net>>

\* Faulty variants of the validation, each with one rule broken; the claims
\* below are checked to tell them from ValidationError.
ValidationErrorSkipsBrand(fd, editMode, files) ==
    IF \/ Trim(fd.name) = <<>>
       \/ Trim(fd.description) = <<>>
       \/ fd.category = ""
       \/ fd.price = <<>>
       \/ fd.stock = <<>>
      THEN MsgRequired
    ELSE IF ~editMode /\ Len(files) = 0 THEN MsgImageRequired
    ELSE IF NumLeqZero(ToNumber(fd.price)) THEN MsgPrice
    ELSE IF NumLtZero(ToNumber(fd.stock)) THEN MsgStock
    ELSE ""

ValidationErrorPriceStrict(fd, editMode, files) ==
    IF \/ Trim(fd.name) = <<>>
       \/ Trim(fd.description) = <<>>
       \/ fd.category = ""
       \/ fd.price = <<>>
       \/ fd.stock = <<>>
       \/ Trim(fd.brand) = <<>>
      THEN MsgRequired
    ELSE IF ~editMode /\ Len(files) = 0 THEN MsgImageRequired
    ELSE IF NumLtZero(ToNumber(fd.price)) THEN MsgPrice
    ELSE IF NumLtZero(ToNumber(fd.stock)) THEN MsgStock
    ELSE ""

ValidationErrorNoStockRule(fd, editMode, files) ==
    IF \/ Trim(fd.name) = <<>>
       \/ Trim(fd.description) = <<>>
       \/ fd.category = ""
       \/ fd.price = <<>>
       \/ fd.stock = <<>>
       \/ Trim(fd.brand) = <<>>
      THEN MsgRequired
    ELSE IF ~editMode /\ Len(files) = 0 THEN MsgImageRequired
    ELSE IF NumLeqZero(ToNumber(fd.price)) THEN MsgPrice
    ELSE ""

ValidationErrorNoImageRule(fd, editMode, files) ==
    IF \/ Trim(fd.name) = <<>>
       \/ Trim(fd.description) = <<>>
       \/ fd.category = ""
       \/ fd.price = <<>>
       \/ fd.stock = <<>>
       \/ Trim(fd.brand) = <<>>
      THEN MsgRequired
    ELSE IF NumLeqZero(ToNumber(fd.price)) THEN MsgPrice
    ELSE IF NumLtZero(ToNumber(fd.stock)) THEN MsgStock
    ELSE ""

\* The first validation rule of handleSubmit that the draft fd fails, as
\* the message it raises; "" when the draft passes.
ValidationError(fd, editMode, files) ==
    IF \/ Trim(fd.name) = <<>>
       \/ Trim(fd.description) = <<>>
       \/ fd.category = ""
       \/ fd.price = <<>>
       \/ fd.stock = <<>>
       \/ Trim(fd.brand) = <<>>
      THEN MsgRequired
    ELSE IF ~editMode /\ Len(files) = 0 THEN MsgImageRequired
    ELSE IF NumLeqZero(ToNumber(fd.price)) THEN MsgPrice
    ELSE IF NumLtZero(ToNumber(fd.stock)) THEN MsgStock
    ELSE ""

\* A faulty payload that drops the existing images of an edited item.
ImagesFieldDropsExisting(fd, editMode, files) ==
    IF Len(files) > 0 THEN [kind |-> "files", val |-> files]
    ELSE [kind |-> "absent", val |-> <<>>]

\* The 'images' entries of the multipart payload: the picked files, else in
\* edit mode the JSON text of the draft's image list, else nothing.
ImagesField(fd, editMode, files) ==
    IF Len(files) > 0 THEN [kind |-> "files", val |-> files]
    ELSE IF editMode /\ Len(fd.images) > 0
      THEN [kind |-> "json", val |-> fd.images]
    ELSE [kind |-> "absent", val |-> <<>>]

\* postData
Payload(fd, editMode, files) ==
    [name |-> fd.name, description |-> fd.description,
     category |-> fd.category, price |-> fd.price, stock |-> fd.stock,
     brand |-> fd.brand, packSize |-> fd.packSize, status |-> fd.status,
     prescription |-> fd.prescription,
     images |-> ImagesField(fd, editMode, files)]

\* The request handleSubmit sends: a PUT keyed by the selected item in edit
\* mode, a POST otherwise.
SubmitRequest ==
    IF isEditMode /\ selectedItem # None
      THEN Request("PUT", The(selectedItem)._id,
                   Some(Payload(formData, isEditMode, imageFiles)))
      ELSE Request("POST", 0, Some(Payload(formData, isEditMode, imageFiles)))

\* handleSubmit up to its await.
HandleSubmit ==
    /\ Interactive
    /\ isModalOpen
    /\ IF ValidationError(formData, isEditMode, imageFiles) # ""
         THEN /\ toast' = ValidationError(formData, isEditMode, imageFiles)
              /\ UNCHANGED <<route, net, mutations>>
         ELSE IF ~token
         THEN /\ toast' = MsgNoToken
              /\ route' = "login"
              /\ UNCHANGED <<net, mutations>>
         ELSE /\ InFlight < MaxInFlight
              /\ mutations < MaxMutations
              /\ net' = net (+) One(SubmitRequest)
              /\ mutations' = mutations + 1
              /\ UNCHANGED <<toast, route>>
    /\ UNCHANGED <<storedUser, token, mounted, user, inventory, isModalOpen,
                   isEditMode, selectedItem, formData, imagePreview,
                   imageFiles, backend, created>>

\* A faulty continuation of handleSubmit that discards the draft whatever the
\* answer.
SubmitResponseAlwaysResets(r) ==
    /\ r \in Replied
    /\ r.kind \in {"POST", "PUT"}
    /\ IF r.status = 200
         THEN LET f == FetchInventory(net (-) One(r),
                         IF r.kind = "PUT" THEN MsgUpdated ELSE MsgAdded,
                         route)
              IN  /\ isModalOpen' = FALSE
                  /\ net' = f.net
                  /\ toast' = f.toast
                  /\ route' = f.route
         ELSE /\ net' = net (-) One(r)
              /\ IF r.status = 401
                   THEN /\ toast' = MsgAuthFailed
                        /\ route' = "login"
                   ELSE IF r.status = 400
                   THEN /\ toast' = IF r.msg # "" THEN r.msg
                                    ELSE MsgInvalidData
                        /\ UNCHANGED route
                   ELSE /\ toast' = IF r.msg # "" THEN r.msg
                                    ELSE MsgOperationFailed
                        /\ UNCHANGED route
              /\ UNCHANGED isModalOpen
    /\ ResetForm
    /\ UNCHANGED <<storedUser, token, mounted, user, inventory, backend,
                   created, mutations>>

\* handleSubmit after its await: the answer r to its POST or PUT.
SubmitResponse(r) ==
    /\ r \in Replied
    /\ r.kind \in {"POST", "PUT"}
    /\ IF r.status = 200
         THEN LET f == FetchInventory(net (-) One(r),
                         IF r.kind = "PUT" THEN MsgUpdated ELSE MsgAdded,
                         route)
              IN  /\ isModalOpen' = FALSE
                  /\ net' = f.net
                  /\ toast' = f.toast
                  /\ route' = f.route
                  /\ ResetForm
         ELSE /\ net' = net (-) One(r)
              /\ IF r.status = 401
                   THEN /\ toast' = MsgAuthFailed
                        /\ route' = "login"
                   ELSE IF r.status = 400
                   THEN /\ toast' = IF r.msg # "" THEN r.msg
                                    ELSE MsgInvalidData
                        /\ UNCHANGED route
                   ELSE /\ toast' = IF r.msg # "" THEN r.msg
                                    ELSE MsgOperationFailed
                        /\ UNCHANGED route
              /\ UNCHANGED <<isModalOpen, isEditMode, selectedItem, formData,
                             imagePreview, imageFiles>>
    /\ UNCHANGED <<storedUser, token, mounted, user, inventory, backend,
                   created, mutations>>

(***************************************************************************)
(* Delete.                                                                 *)
(***************************************************************************)
\* handleDelete(id) up to its await, for the Delete button of a table row;
\* confirmed is the answer to window.confirm.
HandleDelete(id, confirmed) ==
    /\ Interactive
    /\ ~isModalOpen
    /\ \E item \in Range(inventory) : item._id = id
    /\ IF ~confirmed
         THEN UNCHANGED <<toast, route, net, mutations>>
         ELSE IF ~token
         THEN /\ toast' = MsgNoToken
              /\ route' = "login"
              /\ UNCHANGED <<net, mutations>>
         ELSE /\ InFlight < MaxInFlight
              /\ mutations < MaxMutations
              /\ net' = net (+) One(Request("DELETE", id, None))
              /\ mutations' = mutations + 1
              /\ UNCHANGED <<toast, route>>
    /\ UNCHANGED <<storedUser, token, mounted, user, inventory, isModalOpen,
                   isEditMode, selectedItem, formData, imagePreview,
                   imageFiles, backend, created>>

\* handleDelete after its await: the answer r to its DELETE.
DeleteResponse(r) ==
    /\ r \in Replied
    /\ r.kind = "DELETE"
    /\ IF r.status = 200
         THEN IF r.truthy
                THEN LET f == FetchInventory(net (-) One(r), MsgDeleted, route)
                     IN  /\ net' = f.net
                         /\ toast' = f.toast
                         /\ route' = f.route
                ELSE /\ net' = net (-) One(r)
                     /\ UNCHANGED <<toast, route>>
         ELSE /\ net' = net (-) One(r)
              /\ IF r.status = 401
                   THEN /\ toast' = MsgAuthFailed
                        /\ route' = "login"
                   ELSE /\ toast' = IF r.msg # "" THEN r.msg
                                    ELSE MsgDeleteFailed
                        /\ UNCHANGED route
    /\ UNCHANGED <<storedUser, token, mounted, user, inventory, isModalOpen,
                   isEditMode, selectedItem, formData, imagePreview,
                   imageFiles, backend, created, mutations>>

(***************************************************************************)
(* The backend behind /api/admin/inventory, as the page observes it: it    *)
(* answers each request once, in any order, with success or with an error. *)
(***************************************************************************)
ErrorStatuses == {400, 401, 500}

\* The identifier of the next item the backend creates.
NextId == Cardinality(SeedIds) + created + 1

\* The image references the backend stores for uploaded files.
StoredPaths(files) == [i \in 1..Len(files) |-> <<"uploads", "\\">> \o files[i]]

\* The item the backend keeps for a payload; old is the item it replaces,
\* if any.
StoreItem(id, body, old) ==
    [_id |-> id, name |-> body.name, category |-> body.category,
     price |-> ToNumber(body.price).v, stock |-> ToNumber(body.stock).v,
     description |-> body.description, status |-> body.status,
     prescription |-> body.prescription,
     images |-> IF body.images.kind = "files"
                  THEN Some(StoredPaths(body.images.val))
                ELSE IF body.images.kind = "json" THEN Some(body.images.val)
                ELSE IF old = None THEN Some(<<>>)
                ELSE The(old).images,
     image |-> IF old = None THEN None ELSE The(old).image,
     brand |-> Some(body.brand),
     packSize |-> IF body.packSize = <<>> THEN None ELSE Some(body.packSize)]

Stored(id) == {item \in Range(backend) : item._id = id}

\* The backend carries out the request r and answers 2xx; truthy tells
\* whether the body of its answer to a DELETE is truthy.
ServeOk(r, truthy) ==
    /\ r \in Sent
    /\ CASE r.kind = "GET" ->
              /\ truthy
              /\ net' = (net (-) One(r)) (+) One(Reply(r, 200, "", backend, TRUE))
              /\ UNCHANGED <<backend, created>>
         [] r.kind = "POST" ->
              /\ truthy
              /\ backend' = Append(backend, StoreItem(NextId, The(r.body), None))
              /\ created' = created + 1
              /\ net' = (net (-) One(r)) (+) One(Reply(r, 200, "", <<>>, TRUE))
         [] r.kind = "PUT" ->
              /\ truthy
              /\ Stored(r.id) # {}
              /\ backend' =
                   [i \in DOMAIN backend |->
                      IF backend[i]._id = r.id
                        THEN StoreItem(r.id, The(r.body), Some(backend[i]))
                        ELSE backend[i]]
              /\ net' = (net (-) One(r)) (+) One(Reply(r, 200, "", <<>>, TRUE))
              /\ UNCHANGED created
         [] r.kind = "DELETE" ->
              /\ Stored(r.id) # {}
              /\ backend' = WithoutId(backend, r.id)
              /\ net' = (net (-) One(r)) (+) One(Reply(r, 200, "", <<>>, truthy))
              /\ UNCHANGED created
    /\ UNCHANGED <<storedUser, token, mounted, route, toast, user, inventory,
                   isModalOpen, isEditMode, selectedItem, formData,
                   imagePreview, imageFiles, mutations>>

\* The backend refuses the request r (or the request fails on its way).
ServeError(r, status, msg) ==
    /\ r \in Sent
    /\ net' = (net (-) One(r)) (+) One(Reply(r, status, msg, <<>>, FALSE))
    /\ UNCHANGED <<storedUser, token, mounted, route, toast, user, inventory,
                   isModalOpen, isEditMode, selectedItem, formData,
                   imagePreview, imageFiles, backend, created, mutations>>

\* The session token goes away while the page is open.
TokenCleared ==
    /\ mounted
    /\ token
    /\ token' = FALSE
    /\ UNCHANGED <<storedUser, mounted, route, toast, user, inventory,
                   isModalOpen, isEditMode, selectedItem, formData,
                   imagePreview, imageFiles, backend, created, mutations, net>>

(***************************************************************************)
(* What the user types and picks, and how the page is driven.              *)
(***************************************************************************)
\* The form's controls, top to bottom.
FieldOrder ==
    <<"name", "description", "category", "brand", "packSize", "price",
      "stock", "status", "prescription">>

FieldAt(field) == CHOOSE i \in DOMAIN FieldOrder : FieldOrder[i] = field

IsBlank(field) ==
    IF field \in {"category", "status", "prescription"}
      THEN formData[field] = ""
      ELSE formData[field] = <<>>

\* The controls above field that the user types into are filled.
FilledAbove(inputs, field) ==
    \A g \in DOMAIN inputs : FieldAt(g) < FieldAt(field) => ~IsBlank(g)

FileNames == {<<"f1">>}

\* The selections of a file dialog: up to MaxFiles files, none on cancel.
RECURSIVE FileLists(_)
FileLists(n) ==
    IF n = 0 THEN {<<>>}
    ELSE FileLists(n - 1)
           \cup {Append(l, f) : l \in {x \in FileLists(n - 1) : Len(x) = n - 1},
                                f \in FileNames}

\* The error answers the page can tell apart, for a request of a kind: the
\* page reads the status of every answer and the message of all but a GET's.
ErrorReplies(kind, messages) ==
    IF kind = "GET" THEN {401, 500} \X {""}
    ELSE IF kind = "DELETE" THEN {401, 500} \X messages
    ELSE ErrorStatuses \X messages

\* A way of driving the page:
\*   inputs    the texts the user types, per form control;
\*   topDown   the user fills the form from its first control down;
\*   settled   the user acts only when no request is outstanding;
\*   budgeted  the user leaves the page alone once MaxMutations create,
\*             update and delete requests were sent;
\*   messages  the messages a backend error may carry.
UserMay(P) ==
    /\ P.settled => net = EmptyBag
    /\ P.budgeted => mutations < MaxMutations

Step(P) ==
    \/ Mount
    \/ UserMay(P) /\ StartCreate
    \/ \E item \in Range(inventory) : UserMay(P) /\ HandleEdit(item)
    \/ \E field \in DOMAIN P.inputs : \E raw \in P.inputs[field] :
         /\ UserMay(P)
         /\ P.topDown => FilledAbove(P.inputs, field)
         /\ OnChange(field, raw)
    \/ \E files \in FileLists(MaxFiles) : UserMay(P) /\ HandleImageChange(files)
    \/ UserMay(P) /\ HandleModalClose
    \/ UserMay(P) /\ HandleSubmit
    \/ \E item \in Range(inventory) : \E confirmed \in BOOLEAN :
         UserMay(P) /\ HandleDelete(item._id, confirmed)
    \/ \E r \in Replied : FetchResponse(r)
    \/ \E r \in Replied : SubmitResponse(r)
    \/ \E r \in Replied : DeleteResponse(r)
    \/ \E r \in Sent : \E truthy \in BOOLEAN : ServeOk(r, truthy)
    \/ \E r \in Sent : \E e \in ErrorReplies(r.kind, P.messages) :
         ServeError(r, e[1], e[2])

(***************************************************************************)
(* Spec: the page with its requests racing.  The user fills the required   *)
(* controls top-down with one value each and may act while requests are    *)
(* outstanding.                                                            *)
(***************************************************************************)
NetInputs ==
    [name |-> {<<"a">>}, description |-> {<<"a">>}, category |-> {"kids"},
     brand |-> {<<"a">>}, price |-> {<<"5">>}, stock |-> {<<"0">>}]

NetProfile ==
    [inputs |-> NetInputs, topDown |-> TRUE, settled |-> FALSE,
     budgeted |-> FALSE, messages |-> {""}]

Init == InitWith({<<SeedBoth>>})

Next == Step(NetProfile)

Spec == Init /\ [][Next]_vars

(***************************************************************************)
(* SpecForm: the validation of handleSubmit on every draft.  The user      *)
(* types any of the texts below into any control, in any order, waits for  *)
(* the outstanding request before acting again, and stops after            *)
(* MaxMutations requests.                                                  *)
(***************************************************************************)
TextInputs == {<<" ">>, <<"a">>}

FormInputs ==
    [name |-> TextInputs, description |-> TextInputs,
     category |-> {"", "kids"}, brand |-> TextInputs,
     price |-> {<<"x">>, <<"0">>, <<"5">>},
     stock |-> {<<" ">>, <<"-", "1">>, <<"0">>}]

FormProfile ==
    [inputs |-> FormInputs, topDown |-> FALSE, settled |-> TRUE,
     budgeted |-> TRUE, messages |-> {""}]

InitForm == InitWith({<<SeedBoth>>})

NextForm == Step(FormProfile)

SpecForm == InitForm /\ [][NextForm]_vars

(***************************************************************************)
(* SpecEdit: editing the items of a backend that holds every kind of image *)
(* reference, with the token going away and backend errors carrying        *)
(* messages.  The user fills in the brand or changes the price, and acts   *)
(* as in SpecForm.                                                         *)
(***************************************************************************)
EditInputs == [brand |-> {<<"b">>}, price |-> {<<"5">>}]

EditProfile ==
    [inputs |-> EditInputs, topDown |-> FALSE, settled |-> TRUE,
     budgeted |-> TRUE, messages |-> BackendMessages]

InitEdit == InitWith({<<SeedBoth, SeedLegacy, SeedBare>>})

NextEdit == Step(EditProfile) \/ TokenCleared

SpecEdit == InitEdit /\ [][NextEdit]_vars

(***************************************************************************)
(* Properties of the validation (checked under SpecForm).                  *)
(***************************************************************************)
\* One of the six required fields of the draft fd is empty after trimming.
BlankAfterTrim(fd) ==
    \/ Trim(fd.name) = <<>>
    \/ Trim(fd.description) = <<>>
    \/ fd.category = ""
    \/ Trim(fd.price) = <<>>
    \/ Trim(fd.stock) = <<>>
    \/ Trim(fd.brand) = <<>>

PriceLeqZero(fd) == ~ToNumber(fd.price).nan /\ ToNumber(fd.price).v <= 0

StockLtZero(fd) == ~ToNumber(fd.stock).nan /\ ToNumber(fd.stock).v < 0

\* The create and update requests in flight.
Submissions == {r \in BagToSet(net) : r.kind \in {"POST", "PUT"}}

\* C1: a submit of a draft in which name, description, category, price,
\* stock or brand is empty after trimming is rejected by the first rule and
\* sends no request, in create mode and in edit mode alike.
C1_MissingFieldRejected ==
    [][(HandleSubmit /\ BlankAfterTrim(formData))
         => (net' = net /\ mutations' = mutations /\ toast' = MsgRequired)]_vars

\* C1 happens: in edit mode, a draft whose brand is white space only, and
\* nothing else missing, was submitted and rejected.
C1_Witness ==
    /\ isModalOpen
    /\ isEditMode
    /\ toast = MsgRequired
    /\ formData.brand = <<" ">>
    /\ ~BlankAfterTrim([formData EXCEPT !.brand = <<"a">>])
    /\ net = EmptyBag
    /\ mutations = 0

\* C5 as first stated: a submit of a draft whose price is given and parses
\* to a number <= 0 is rejected with the price message and sends nothing,
\* and a request is only sent with a price > 0.
C5_Original ==
    /\ [][(HandleSubmit /\ formData.price # <<>> /\ PriceLeqZero(formData))
            => (net' = net /\ toast' = MsgPrice)]_vars
    /\ [](\A r \in Submissions : NumGtZero(ToNumber(The(r.body).price)))

\* C5, amended: a submit of a draft whose price parses to a number <= 0 is
\* rejected and sends no request; the message is that of the first rule the
\* draft fails: the required-fields message when a required field is empty,
\* else the image message in create mode without a pending file, else the
\* price message.  A create or update request is only ever sent with a
\* price that parses to a number > 0.
C5_PriceRejected ==
    /\ [][(HandleSubmit /\ PriceLeqZero(formData))
            => /\ net' = net
               /\ mutations' = mutations
               /\ toast' = IF BlankAfterTrim(formData) THEN MsgRequired
                           ELSE IF ~isEditMode /\ imageFiles = <<>>
                             THEN MsgImageRequired
                           ELSE MsgPrice]_vars
    /\ [](\A r \in Submissions :
            ~ToNumber(The(r.body).price).nan
            /\ ToNumber(The(r.body).price).v > 0)

\* C5 happens: a draft complete but for its price of 0 was submitted and
\* rejected with the price message.
C5_Witness ==
    /\ isModalOpen
    /\ toast = MsgPrice
    /\ formData.price = <<"0">>
    /\ ~BlankAfterTrim(formData)
    /\ isEditMode \/ imageFiles # <<>>
    /\ net = EmptyBag
    /\ mutations = 0

\* C6 as first stated: a submit of a draft whose stock parses to a number
\* < 0 is rejected with the stock message and sends nothing, and a request
\* is only sent with a stock >= 0.
C6_Original ==
    /\ [][(HandleSubmit /\ StockLtZero(formData))
            => (net' = net /\ toast' = MsgStock)]_vars
    /\ [](\A r \in Submissions : NumGeqZero(ToNumber(The(r.body).stock)))

\* C6, amended: a submit of a draft whose stock parses to a number < 0 is
\* rejected and sends no request; the message is that of the first rule the
\* draft fails: the required-fields message, else the image message in
\* create mode without a pending file, else the price message when the
\* price is <= 0, else the stock message.  A create or update request is
\* only ever sent with a stock that parses to a number >= 0.
C6_StockRejected ==
    /\ [][(HandleSubmit /\ StockLtZero(formData))
            => /\ net' = net
               /\ mutations' = mutations
               /\ toast' = IF BlankAfterTrim(formData) THEN MsgRequired
                           ELSE IF ~isEditMode /\ imageFiles = <<>>
                             THEN MsgImageRequired
                           ELSE IF PriceLeqZero(formData) THEN MsgPrice
                           ELSE MsgStock]_vars
    /\ [](\A r \in Submissions :
            ~ToNumber(The(r.body).stock).nan
            /\ ToNumber(The(r.body).stock).v >= 0)

\* C6 happens: a draft complete but for its stock of -1 was submitted and
\* rejected with the stock message.
C6_Witness ==
    /\ isModalOpen
    /\ toast = MsgStock
    /\ formData.stock = <<"-", "1">>
    /\ ~BlankAfterTrim(formData)
    /\ ~PriceLeqZero(formData)
    /\ isEditMode \/ imageFiles # <<>>
    /\ net = EmptyBag
    /\ mutations = 0

\* C7: in create mode a submit without a pending file sends no request, and
\* every create request carries at least one file.
C7_CreateNeedsImage ==
    /\ [][(HandleSubmit /\ ~isEditMode /\ Len(imageFiles) = 0)
            => (net' = net /\ mutations' = mutations)]_vars
    /\ [](\A r \in Submissions :
            r.kind = "POST"
              => /\ The(r.body).images.kind = "files"
                 /\ Len(The(r.body).images.val) >= 1)

\* C7 happens: in create mode a draft complete but for its image was
\* submitted and rejected with the image message.
C7_Witness ==
    /\ isModalOpen
    /\ ~isEditMode
    /\ toast = MsgImageRequired
    /\ imageFiles = <<>>
    /\ ~BlankAfterTrim(formData)
    /\ ~PriceLeqZero(formData)
    /\ net = EmptyBag
    /\ mutations = 0

(***************************************************************************)
(* Properties of the session gate and of the requests (checked under       *)
(* Spec).                                                                  *)
(***************************************************************************)
IsAdmin == storedUser # None /\ The(storedUser).role = "admin"

\* C8: the mount effect stores the user and sends the inventory fetch only
\* when the stored user record exists and its role is admin.  Without a
\* record it goes to the login route; with another role it raises the
\* authorization error and goes to the login route; in both cases no
\* request is ever sent and the stored user stays null.
C8_SessionGate ==
    /\ ~mounted => (user = None /\ net = EmptyBag /\ route = "inventory")
    /\ (mounted /\ storedUser = None)
         => /\ route = "login"
            /\ toast = NoToast
            /\ user = None
            /\ net = EmptyBag
    /\ (mounted /\ storedUser # None /\ ~IsAdmin)
         => /\ route = "login"
            /\ toast = MsgUnauthorized
            /\ user = None
            /\ net = EmptyBag
    /\ (mounted /\ IsAdmin) => user = storedUser

\* C8 happens: the page was mounted with a stored user who is no admin.
C8_Witness ==
    /\ mounted
    /\ storedUser # None
    /\ ~IsAdmin
    /\ route = "login"
    /\ toast = MsgUnauthorized

\* The continuation that resumes with the answer r.
Resumes(r) == FetchResponse(r) \/ SubmitResponse(r) \/ DeleteResponse(r)

\* C3: when the answer to the request of fetchInventory, of submit or of
\* deleteItem is a 401, the handler raises the authentication failure, goes
\* to the login route and sends no further request: what is in flight
\* afterwards is what was in flight, less the answer.
C3_NoRetryOn401 ==
    [][\A r \in Replied :
         (r.status = 401 /\ Resumes(r))
           => /\ route' = "login"
              /\ toast' = MsgAuthFailed
              /\ net' = net (-) One(r)]_vars

\* C3 happens: a create, update or delete request was answered 401, and the
\* page is on its way to the login route with nothing in flight.
C3_Witness ==
    /\ route = "login"
    /\ toast = MsgAuthFailed
    /\ mutations = 1
    /\ net = EmptyBag

\* C2 as stated: once a create or update has succeeded (its success is the
\* last notification) and every request has settled, the list the table
\* shows is the backend's collection.
C2_DisplayedMatchesBackend ==
    (net = EmptyBag /\ toast \in {MsgAdded, MsgUpdated}) => inventory = backend

(***************************************************************************)
(* Properties of editing (checked under SpecEdit).                         *)
(***************************************************************************)
\* An action failed in this step: a submit or a confirmed delete that sent
\* nothing, a mount that sent nothing, or a continuation resuming with an
\* error answer.
FailureStep ==
    \/ HandleSubmit /\ net' = net
    \/ \E item \in Range(inventory) : HandleDelete(item._id, TRUE) /\ net' = net
    \/ Mount /\ net' = net
    \/ \E r \in Replied : r.status # 200 /\ Resumes(r)

\* C4: a fetch, submit or delete that fails (by validation, for want of a
\* token, or by an error answer) leaves the list, the draft, the pending
\* files and previews, the modal flag, the edit-mode flag and the selected
\* item as they were.
C4_FailureKeepsView == [][FailureStep => UNCHANGED view]_vars

\* C4 happens: an update was refused by the backend with a message, and the
\* modal still shows the draft of the item being edited.
C4_Witness ==
    /\ toast \in BackendMessages \ {""}
    /\ mutations = 1
    /\ net = EmptyBag
    /\ isModalOpen
    /\ isEditMode
    /\ selectedItem # None
    /\ formData.name = The(selectedItem).name
    /\ inventory # <<>>

\* The image list of an item as startEdit is to resolve it: its images when
\* it has any, else its legacy image alone when it has one, else nothing.
Resolved(item) ==
    LET images == IF item.images = None THEN <<>> ELSE The(item.images)
        legacy == IF item.image = None THEN <<>> ELSE The(item.image)
    IN  IF images # <<>> THEN images
        ELSE IF legacy # <<>> THEN <<legacy>>
        ELSE <<>>

\* The request a step sends, if it sends one.
SentBy(r) == net' = net (+) One(r)

\* C9 as first stated: in edit mode a submit sends an update request, keyed
\* by the item being edited, whose images are the picked files when there
\* are any and the serialized existing image list otherwise.
C9_Original ==
    [][(HandleSubmit /\ isEditMode /\ net' # net)
         => \E r \in BagToSet(net') :
              /\ SentBy(r)
              /\ r.kind = "PUT"
              /\ r.id = The(selectedItem)._id
              /\ The(r.body).images =
                   IF imageFiles # <<>>
                     THEN [kind |-> "files", val |-> imageFiles]
                     ELSE [kind |-> "json",
                           val |-> Resolved(The(selectedItem))]]_vars

\* C9, amended: as above, but when no file is picked and the existing image
\* list is empty the request carries no images field at all.
C9_EditKeepsImages ==
    [][(HandleSubmit /\ isEditMode /\ net' # net)
         => \E r \in BagToSet(net') :
              /\ SentBy(r)
              /\ r.kind = "PUT"
              /\ r.id = The(selectedItem)._id
              /\ The(r.body).images =
                   IF imageFiles # <<>>
                     THEN [kind |-> "files", val |-> imageFiles]
                   ELSE IF Resolved(The(selectedItem)) # <<>>
                     THEN [kind |-> "json",
                           val |-> Resolved(The(selectedItem))]
                   ELSE [kind |-> "absent", val |-> <<>>]]_vars

\* C9 happens: the legacy item is being updated with no file picked, and the
\* request carries its legacy image as the serialized list.
C9_Witness ==
    \E r \in BagToSet(net) :
      /\ r.kind = "PUT"
      /\ r.id = SeedLegacy._id
      /\ The(r.body).images =
           [kind |-> "json", val |-> <<The(SeedLegacy.image)>>]

\* C10: the draft of an item being edited holds the image list resolved
\* from the item: its images when non-empty (the legacy image is ignored),
\* else exactly the legacy image when that is non-empty, else nothing.
C10_ResolvedImages ==
    (isEditMode /\ selectedItem # None)
      => formData.images = Resolved(The(selectedItem))

\* C10 happens: the item with a legacy image only is being edited, and the
\* draft lists exactly that image.
C10_Witness ==
    /\ isEditMode
    /\ selectedItem = Some(SeedLegacy)
    /\ formData.images = <<The(SeedLegacy.image)>>
    /\ Len(formData.images) = 1


(***************************************************************************)
(* Claims about deleting, checked under Spec.                              *)
(***************************************************************************)

\* An item the table shows that the backend no longer holds.  Under the
\* specifications here the backend drops an item only by answering a
\* DELETE of handleDelete with success.
DeletedStillDisplayed ==
    \E item \in Range(inventory) :
      \A kept \in Range(backend) : kept._id # item._id

\* C11: every delete the backend answered with success is followed by the
\* success notification and a re-fetch, so that once every request has
\* settled the deleted item is no longer displayed.  The code notifies and
\* re-fetches only for an answer with a truthy body, and lets an older
\* fetch answered later overwrite the re-fetched list.
C11_DeletedNotDisplayed ==
    net = EmptyBag => ~DeletedStillDisplayed


(***************************************************************************)
(* Claims about the draft while a submit is outstanding, checked under     *)
(* Spec.                                                                   *)
(***************************************************************************)

\* The draft as the modal holds it.
draft == <<formData, imageFiles, imagePreview, isEditMode, selectedItem,
           isModalOpen>>

\* The answer r belongs to a submit of a draft other than the open one.  A
\* draft keeps its mode and its selected item from startCreate or startEdit
\* to its end, so a POST answered while an item is being edited, or a PUT
\* answered while a new item or another item is being entered, was sent
\* from a draft that has since been closed and replaced.
FromEarlierDraft(r) ==
    /\ isModalOpen
    /\ \/ r.kind = "POST" /\ isEditMode
       \/ r.kind = "PUT" /\ ~isEditMode
       \/ r.kind = "PUT" /\ selectedItem # None
                         /\ The(selectedItem)._id # r.id

\* C12: the completion of a submit that was started from an earlier draft
\* neither closes the modal nor resets the draft that is open now: its
\* fields, pending files, edit-mode flag and open modal stay as they are.
\* The code has one continuation per submit, and on success it closes the
\* modal and resets whatever draft is open.
C12_StaleSubmitKeepsDraft ==
    [][\A r \in Replied :
         (r.status = 200 /\ FromEarlierDraft(r) /\ SubmitResponse(r))
           => UNCHANGED draft]_vars


(***************************************************************************)
(* Claims about the edit-mode flag and the selected item, checked under    *)
(* SpecEdit.                                                               *)
(***************************************************************************)

\* C13: the edit-mode flag is set exactly when a selected item is held;
\* the selected item changes only by being dropped or by startEdit, which
\* holds the item it was given; and a submit in edit mode that sends a
\* request sends an update keyed by the selected item, never a create.
C13_EditFlagMatchesSelection ==
    /\ [](isEditMode <=> selectedItem # None)
    /\ [][/\ selectedItem' # selectedItem
              => \/ selectedItem' = None
                 \/ \E item \in Range(inventory) :
                      HandleEdit(item) /\ selectedItem' = Some(item)
          /\ (HandleSubmit /\ isEditMode /\ net' # net)
              => \E r \in BagToSet(net') :
                   /\ SentBy(r)
                   /\ r.kind = "PUT"
                   /\ r.id = The(selectedItem)._id]_vars

\* C13 happens: the third item of the table is being edited and its update
\* request, keyed by its identifier, is in flight.
C13_Witness ==
    /\ isEditMode
    /\ selectedItem = Some(SeedBare)
    /\ \E r \in BagToSet(net) :
         r.kind = "PUT" /\ r.id = SeedBare._id /\ r.phase = "sent"

====
